---- MODULE Spec2Model ----
(***************************************************************************)
(* Hokm card game bot (src/bot.py): the Game class and the handlers that   *)
(* drive it.  One Game object is modelled; python lists are sequences and  *)
(* python's 0-based indices are kept (element i of a list is seq[i + 1]).  *)
(* The deck is scaled: NumRanks ranks per suit instead of 13, so a hand    *)
(* has NumRanks cards and NumRanks tricks.  A handler is modelled from the  *)
(* point where it holds the Game object: the actions below are the calls   *)
(* it makes on that object and what it does with their results.            *)
(***************************************************************************)
EXTENDS Integers, Sequences, FiniteSets, TLC

\* ------------------------------------------------------------------ bounds
NumRanks == 2
NumUsers == 5
MaxDraw == 1
NumTrumpChoices == 2
MaxStarts == 2
HandRanks == 3

\* --------------------------------------------------------------- card model
HEARTS == "HEARTS"
DIAMONDS == "DIAMONDS"
CLUBS == "CLUBS"
SPADES == "SPADES"
NoSuit == "None"

\* the order in which initialize_deck walks the suits
SuitList == <<HEARTS, DIAMONDS, CLUBS, SPADES>>
Suits == {SuitList[k] : k \in 1..Len(SuitList)}

\* Suit.value is the suit's emoji; deal_cards sorts on it, that is on the
\* code point of its first character
SuitValue(s) ==
  CASE s = SPADES -> 9824
    [] s = CLUBS -> 9827
    [] s = HEARTS -> 9829
    [] s = DIAMONDS -> 9830

\* RANKS: values 2, 3, ... in insertion order (2..14 in the source)
RankList == [k \in 1..NumRanks |-> k + 1]
Ranks == {RankList[k] : k \in 1..Len(RankList)}

Card(s, r) == [suit |-> s, rank |-> r]
NoCard == [suit |-> NoSuit, rank |-> 0]
AllCards == {Card(s, r) : s \in Suits, r \in Ranks}

Users == 1..NumUsers
NoId == 0
creator_id == 1

\* ----------------------------------------------------------- list helpers
Range(seq) == {seq[k] : k \in 1..Len(seq)}

\* seq without its last element, whatever k
RemoveAtEnd(seq, k) == SubSeq(seq, 1, Len(seq) - 1)

\* seq without its element at 1-based position k
RemoveAt(seq, k) == [j \in 1..(Len(seq) - 1) |-> IF j < k THEN seq[j] ELSE seq[j + 1]]

\* python list indexing: 0 .. n-1 from the front, -1 .. -n from the back,
\* anything else raises IndexError (reported here as position 0)
PyPos(seq, i) ==
  IF i >= 0 /\ i < Len(seq) THEN i + 1
  ELSE IF i < 0 /\ i >= 0 - Len(seq) THEN Len(seq) + i + 1
  ELSE 0

\* seq[a:b] of python, a and b 0-based
Slice(seq, a, b) ==
  LET hi == IF b > Len(seq) THEN Len(seq) ELSE b
  IN  IF a >= hi THEN <<>> ELSE [j \in 1..(hi - a) |-> seq[a + j]]

\* cut the list after its first n elements and swap the two parts
Rotate(seq, n) ==
  LET m == IF Len(seq) = 0 THEN 0 ELSE n % Len(seq)
  IN  [j \in 1..Len(seq) |-> seq[((j - 1 + m) % Len(seq)) + 1]]

\* sort key of deal_cards: (suit.value, rank.value)
CardLess(a, b) ==
  \/ SuitValue(a.suit) < SuitValue(b.suit)
  \/ a.suit = b.suit /\ a.rank < b.rank

RECURSIVE InsertSorted(_, _)
InsertSorted(sorted, c) ==
  IF sorted = <<>> THEN <<c>>
  ELSE IF CardLess(c, Head(sorted)) THEN <<c>> \o sorted
  ELSE <<Head(sorted)>> \o InsertSorted(Tail(sorted), c)

\* list.sort(key=...): stable insertion of each element in turn
RECURSIVE SortCards(_)
SortCards(cards) ==
  IF cards = <<>> THEN <<>>
  ELSE InsertSorted(SortCards(SubSeq(cards, 1, Len(cards) - 1)), cards[Len(cards)])


\* ---------------------------------------------------------------- state
VARIABLES
  players,            \* Game.players: list of Player (user_id, cards, tricks_won, score, verified)
  deck,               \* Game.deck
  current_round,      \* Game.current_round: Round (cards_played, starting_player_id, winner_id)
  rounds,             \* Game.rounds: the completed Rounds
  turn_order,         \* Game.turn_order: list of user ids
  current_turn_index, \* Game.current_turn_index
  trump_suit,         \* Game.trump_suit
  trump_chooser_id,   \* Game.trump_chooser_id
  state,              \* Game.state
  registered,         \* game_id in game_manager.games
  ret,                \* what the last call returned to its caller
  starts,             \* number of successful start_game calls so far
  start_pc,           \* where the handler thread is inside start_game
  job_todo,           \* players the periodic membership job has still to visit
  game_manager        \* GameManager: games and user_games, with several games

gameVars == <<players, deck, current_round, rounds, turn_order, current_turn_index,
              trump_suit, trump_chooser_id, state>>
threadVars == <<start_pc, job_todo>>
vars == <<players, deck, current_round, rounds, turn_order, current_turn_index,
          trump_suit, trump_chooser_id, state, registered, ret, starts, start_pc, job_todo,
          game_manager>>

\* GameManager.__init__: no games, no user in a game.  The specifications of
\* a single game leave the manager as it is here.
EmptyManager == [games |-> <<>>, user_games |-> <<>>]

\* Player(user_id): no cards, no tricks, not verified
Player(u) == [user_id |-> u, cards |-> <<>>, tricks_won |-> 0, score |-> 0, verified |-> FALSE]

\* Round(): empty dict, no starter, no winner.  cards_played is the dict in
\* insertion order, one entry per key
Round == [cards_played |-> <<>>, starting_player_id |-> NoId, winner_id |-> NoId]

is_complete(round, players_count) == Len(round.cards_played) = players_count

\* the value returned to the caller: (success, card, message), the list of
\* legal cards the follow-suit message names, and the operation that returned it
Ret(op, ok, card, msg, valid) == [op |-> op, ok |-> ok, card |-> card, msg |-> msg, valid |-> valid]
Failure(op, msg) == Ret(op, FALSE, NoCard, msg, <<>>)
Success(op) == Ret(op, TRUE, NoCard, "", <<>>)

\* the dispatcher thread takes the next update once the last answer is out
\* and while the game is in game_manager.games
NoRet == Ret("none", TRUE, NoCard, "", <<>>)
HandlerFree == registered /\ start_pc = "idle" /\ ret = NoRet

\* --------------------------------------------------------- Game: lookups
HasPlayer(u) == \E k \in 1..Len(players) : players[k].user_id = u

\* get_player_index + 1 (0 when get_player returns None)
PlayerPos(u) ==
  IF HasPlayer(u)
  THEN CHOOSE k \in 1..Len(players) :
         players[k].user_id = u /\ \A j \in 1..(k - 1) : players[j].user_id # u
  ELSE 0

\* dict lookups on Round.cards_played
HasKey(cp, u) == \E k \in 1..Len(cp) : cp[k].user_id = u
Lookup(cp, u) == cp[CHOOSE k \in 1..Len(cp) : cp[k].user_id = u].card
\* cards_played[u] = card: a new key is appended, an old key keeps its place
DictSet(cp, u, card) ==
  IF HasKey(cp, u)
  THEN [k \in 1..Len(cp) |-> IF cp[k].user_id = u THEN [user_id |-> u, card |-> card] ELSE cp[k]]
  ELSE Append(cp, [user_id |-> u, card |-> card])

\* list.index(x) + 1
IndexOf(seq, x) == CHOOSE k \in 1..Len(seq) : seq[k] = x /\ \A j \in 1..(k - 1) : seq[j] # x

\* -------------------------------------------------- Game: deck and deal
\* initialize_deck before the shuffle: suit by suit, rank by rank
OrderedDeck ==
  [k \in 1..(Len(SuitList) * NumRanks) |->
     Card(SuitList[((k - 1) \div NumRanks) + 1], RankList[((k - 1) % NumRanks) + 1])]

\* the same cards rank by rank, suit by suit
RiffledDeck ==
  [k \in 1..(Len(SuitList) * NumRanks) |->
     Card(SuitList[((k - 1) % Len(SuitList)) + 1], RankList[((k - 1) \div Len(SuitList)) + 1])]

\* a deal that is one card short per player
cards_per_player_short == NumRanks - 1

\* cards_per_player = 13 in the source, the number of ranks
cards_per_player == NumRanks

\* deal_cards: player i gets deck[i * cpp : (i + 1) * cpp], sorted
deal_cards(ps, d) ==
  [k \in 1..Len(ps) |->
     [ps[k] EXCEPT !.cards =
        SortCards(Slice(d, (k - 1) * cards_per_player, (k - 1) * cards_per_player + cards_per_player))]]

\* The two random.shuffle calls of one start_game, on the deck and on the
\* turn order (order is the seating order): the outcomes explored.  Each is a
\* permutation; draw c cuts the riffled or the ordered deck and a turn order
\* that is or is not a rotation of the seating order.
Shuffles(order) ==
  {[deck |-> Rotate(IF c % 2 = 0 THEN RiffledDeck ELSE OrderedDeck, c \div 2),
    turn |-> IF Len(order) < 4 THEN order
             ELSE Rotate(IF c % 2 = 0 THEN <<order[1], order[3], order[2], order[4]>>
                         ELSE order, c)] : c \in 0..MaxDraw}

\* a can_play_card that lets every card through
can_play_card_any(cards, card, cp) == TRUE

\* ------------------------------------------------- Game: trick legality
\* can_play_card(player, card): cards is player.cards, cp the current
\* round's cards_played
can_play_card(cards, card, cp) ==
  IF cp = <<>> THEN TRUE
  ELSE LET leading_suit == cp[1].card.suit
           has_leading_suit == \E k \in 1..Len(cards) : cards[k].suit = leading_suit
       IN  IF card.suit = leading_suit THEN TRUE
           ELSE IF has_leading_suit THEN FALSE
           ELSE TRUE

\* the whole hand instead of its playable cards
valid_cards_all(cards, all, cp) == cards

\* [c for c in player.cards if self.can_play_card(player, c, ...)]
RECURSIVE valid_cards(_, _, _)
valid_cards(cards, all, cp) ==
  IF cards = <<>> THEN <<>>
  ELSE (IF can_play_card(all, Head(cards), cp) THEN <<Head(cards)>> ELSE <<>>)
       \o valid_cards(Tail(cards), all, cp)

\* ---------------------------------------------------- Game: trick winner
\* the loop of get_round_winner over cards_played.items(), from entry k on
RECURSIVE WinnerLoop(_, _, _, _, _, _)
WinnerLoop(cp, k, winning_player_id, winning_card, leading_suit, trump) ==
  IF k > Len(cp) THEN winning_player_id
  ELSE LET player_id == cp[k].user_id
           card == cp[k].card
           take ==
             IF card.suit = trump
             THEN (winning_card.suit # trump \/ card.rank > winning_card.rank)
             ELSE IF card.suit = leading_suit /\ winning_card.suit = leading_suit
             THEN card.rank > winning_card.rank
             ELSE card.suit = leading_suit /\ winning_card.suit # trump
       IN  IF take
           THEN WinnerLoop(cp, k + 1, player_id, card, leading_suit, trump)
           ELSE WinnerLoop(cp, k + 1, winning_player_id, winning_card, leading_suit, trump)

\* a get_round_winner that forgets the trump suit
get_round_winner_no_trump(cp, starting_player_id, trump) ==
  IF cp = <<>> THEN NoId
  ELSE LET first_card == Lookup(cp, starting_player_id)
       IN  WinnerLoop(cp, 1, starting_player_id, first_card, first_card.suit, NoSuit)

\* get_round_winner on a round with the given dict, starter and trump suit
get_round_winner(cp, starting_player_id, trump) ==
  IF cp = <<>> THEN NoId
  ELSE LET first_card == Lookup(cp, starting_player_id)
       IN  WinnerLoop(cp, 1, starting_player_id, first_card, first_card.suit, trump)

\* calculate_scores
calculate_scores(ps) == [k \in 1..Len(ps) |-> [ps[k] EXCEPT !.score = ps[k].tricks_won]]

\* ------------------------------------------------------- Game.play_card
\* the user whose turn it is: turn_order[current_turn_index]
OnTurn == turn_order[current_turn_index + 1]

\* a play_card without its state check
not_running_off == FALSE

\* a play_card without its turn check
not_your_turn_off(u) == FALSE

\* the turn handed to the player after the winner (a 1-based index kept)
winner_turn_index_next(order, winner_id) == IndexOf(order, winner_id) % Len(order)

\* line 233: the game is not running
not_running == state # "playing"

\* lines 236 to 238: it is not user u's turn
not_your_turn(u) == u # OnTurn

\* lines 240 to 242: no such player, or the index is past the end of the hand
invalid_card(u, i) == PlayerPos(u) = 0 \/ i >= Len(players[PlayerPos(u)].cards)

\* what play_card(user_id, card_index) returns in the current state
play_card_ret(u, i) ==
  IF not_running THEN Failure("play_card", "NotRunning")
  ELSE IF ~(current_turn_index < Len(turn_order)) THEN Failure("play_card", "IndexError")
  ELSE IF not_your_turn(u) THEN Failure("play_card", "NotYourTurn")
  ELSE IF invalid_card(u, i) THEN Failure("play_card", "InvalidCard")
  ELSE LET cards == players[PlayerPos(u)].cards
           pos == PyPos(cards, i)
           cp == current_round.cards_played
       IN  IF pos = 0 THEN Failure("play_card", "IndexError")
           ELSE IF ~can_play_card(cards, cards[pos], cp)
           THEN (IF valid_cards(cards, cards, cp) # <<>>
                 THEN Ret("play_card", FALSE, NoCard, "SuitViolation", valid_cards(cards, cards, cp))
                 ELSE Failure("play_card", "CheckError"))
           ELSE Ret("play_card", TRUE, cards[pos], "", <<>>)

\* line 265: the turn passes to the next position
next_turn_index(index, players_count) == (index + 1) % players_count

\* lines 281 and 282: the winner of the round is on turn
winner_turn_index(order, winner_id) == IndexOf(order, winner_id) - 1

\* the assignments of a successful play_card, lines 256 to 287
play_card_do(u, i) ==
  LET me == PlayerPos(u)
      pos == PyPos(players[me].cards, i)
      card == players[me].cards[pos]
      popped == [players EXCEPT ![me].cards = RemoveAt(@, pos)]
      cp == DictSet(current_round.cards_played, u, card)
      starter == IF current_round.cards_played = <<>> THEN u
                 ELSE current_round.starting_player_id
      next_index == next_turn_index(current_turn_index, Len(players))
  IN  IF Len(cp) = Len(players)
      THEN LET winner_id == get_round_winner(cp, starter, trump_suit)
               done == [cards_played |-> cp, starting_player_id |-> starter,
                        winner_id |-> winner_id]
               won == IF PlayerPos(winner_id) = 0 THEN popped
                      ELSE [popped EXCEPT ![PlayerPos(winner_id)].tricks_won = @ + 1]
               over == \A k \in 1..Len(won) : Len(won[k].cards) = 0
           IN  /\ rounds' = Append(rounds, done)
               /\ current_round' = Round
               /\ current_turn_index' = winner_turn_index(turn_order, winner_id)
               /\ state' = IF over THEN "finished" ELSE state
               /\ players' = IF over THEN calculate_scores(won) ELSE won
      ELSE /\ players' = popped
           /\ current_round' = [current_round EXCEPT !.cards_played = cp,
                                                     !.starting_player_id = starter]
           /\ current_turn_index' = next_index
           /\ UNCHANGED <<rounds, state>>

\* callback play_ once it holds the game: Game.play_card, and delete_game
\* (line 1546) once the game is finished.  Between the two the handler calls
\* query.answer (line 1515) outside any try: if that call to Telegram raises,
\* the handler ends there and the finished game stays in game_manager.games.
PlayCard(u, i) ==
  /\ HandlerFree
  /\ ret' = play_card_ret(u, i)
  /\ IF play_card_ret(u, i).ok
     THEN /\ play_card_do(u, i)
          /\ registered' \in {TRUE, state' # "finished"}
     ELSE UNCHANGED <<players, current_round, rounds, current_turn_index, state, registered>>
  /\ UNCHANGED <<deck, turn_order, trump_suit, trump_chooser_id, starts, start_pc, job_todo>>
  /\ UNCHANGED game_manager


\* ------------------------------------------------------ Game.start_game
\* the two checks of start_game, lines 185 to 190
start_game_ok ==
  /\ ~(Len(players) < 4)
  /\ \A k \in 1..Len(players) : players[k].verified

\* a start_game that names the last player of the turn order as chooser
start_game_do_last_chooser(d, t) ==
  /\ deck' = d
  /\ players' = deal_cards(players, d)
  /\ turn_order' = t
  /\ current_turn_index' = 0
  /\ state' = "choosing_trump"
  /\ trump_chooser_id' = t[Len(t)]
  /\ starts' = starts + 1
  /\ UNCHANGED <<current_round, rounds, trump_suit>>

\* the assignments of start_game, lines 192 to 199: d is the shuffled deck
\* and t the shuffled turn order
start_game_do(d, t) ==
  /\ deck' = d
  /\ players' = deal_cards(players, d)
  /\ turn_order' = t
  /\ current_turn_index' = 0
  /\ state' = "choosing_trump"
  /\ trump_chooser_id' = t[1]
  /\ starts' = starts + 1
  /\ UNCHANGED <<current_round, rounds, trump_suit>>

SeatOrder == [k \in 1..Len(players) |-> players[k].user_id]

\* callback start_: only the creator, then Game.start_game
start_button_ret(u) ==
  IF u # creator_id THEN Failure("start_button", "NotCreator")
  ELSE IF ~start_game_ok THEN Failure("start_button", "StartFailed")
  ELSE Success("start_button")

StartButton(u) ==
  /\ HandlerFree
  /\ ret' = start_button_ret(u)
  /\ IF start_button_ret(u).ok
     THEN /\ starts < MaxStarts
          /\ \E sh \in Shuffles(SeatOrder) : start_game_do(sh.deck, sh.turn)
     ELSE UNCHANGED <<gameVars, starts>>
  /\ UNCHANGED <<registered, start_pc, job_todo>>
  /\ UNCHANGED game_manager

\* /startgame: get_player_game, only the creator, only while waiting, only
\* with 4 verified players, then Game.start_game
start_command_ret(u) ==
  IF ~HasPlayer(u) THEN Failure("start_command", "NoGame")
  ELSE IF u # creator_id THEN Failure("start_command", "NotCreator")
  ELSE IF state # "waiting" THEN Failure("start_command", "AlreadyStarted")
  ELSE IF Len(players) < 4 THEN Failure("start_command", "TooFewPlayers")
  ELSE IF \E k \in 1..Len(players) : ~players[k].verified
  THEN Failure("start_command", "NotVerified")
  ELSE IF ~start_game_ok THEN Failure("start_command", "StartFailed")
  ELSE Success("start_command")

StartCommand(u) ==
  /\ HandlerFree
  /\ ret' = start_command_ret(u)
  /\ IF start_command_ret(u).ok
     THEN /\ starts < MaxStarts
          /\ \E sh \in Shuffles(SeatOrder) : start_game_do(sh.deck, sh.turn)
     ELSE UNCHANGED <<gameVars, starts>>
  /\ UNCHANGED <<registered, start_pc, job_todo>>
  /\ UNCHANGED game_manager

\* ----------------------------------------------------- Game.choose_trump
choose_trump_ret(u, suit) ==
  IF state # "choosing_trump" \/ u # trump_chooser_id
  THEN Failure("choose_trump", "CannotChoose")
  ELSE Success("choose_trump")

\* callback trump_ once it holds the game: its own check, then
\* Game.choose_trump
ChooseTrump(u, suit) ==
  /\ HandlerFree
  /\ ret' = choose_trump_ret(u, suit)
  /\ IF choose_trump_ret(u, suit).ok
     THEN /\ trump_suit' = suit
          /\ state' = "playing"
     ELSE UNCHANGED <<trump_suit, state>>
  /\ UNCHANGED <<players, deck, current_round, rounds, turn_order, current_turn_index,
                 trump_chooser_id, registered, starts, start_pc, job_todo>>
  /\ UNCHANGED game_manager

\* ------------------------------------------------------------- the roster
\* an add_player without its check for a user already seated
add_player_ok_twice(u) == ~(Len(players) >= 4)

\* Game.add_player
add_player_ok(u) == ~(Len(players) >= 4) /\ ~HasPlayer(u)

\* callback join_
join_ret(u) ==
  IF state # "waiting" THEN Failure("join", "Running")
  ELSE IF HasPlayer(u) THEN Failure("join", "AlreadyIn")
  ELSE IF Len(players) >= 4 THEN Failure("join", "Full")
  ELSE IF ~add_player_ok(u) THEN Failure("join", "JoinFailed")
  ELSE Success("join")

Join(u) ==
  /\ HandlerFree
  /\ ret' = join_ret(u)
  /\ players' = IF join_ret(u).ok THEN Append(players, Player(u)) ELSE players
  /\ UNCHANGED <<deck, current_round, rounds, turn_order, current_turn_index, trump_suit,
                 trump_chooser_id, state, registered, starts, start_pc, job_todo>>
  /\ UNCHANGED game_manager

\* Game.remove_player
remove_player(u) == RemoveAt(players, PlayerPos(u))

\* a /leave without its check of the phase
leave_ret_any_phase(u) ==
  IF ~HasPlayer(u) THEN Failure("leave", "NoGame")
  ELSE IF u = creator_id THEN Failure("leave", "Creator")
  ELSE Success("leave")

\* /leave
leave_ret(u) ==
  IF ~HasPlayer(u) THEN Failure("leave", "NoGame")
  ELSE IF u = creator_id THEN Failure("leave", "Creator")
  ELSE IF state # "waiting" THEN Failure("leave", "Running")
  ELSE Success("leave")

Leave(u) ==
  /\ HandlerFree
  /\ ret' = leave_ret(u)
  /\ players' = IF leave_ret(u).ok THEN remove_player(u) ELSE players
  /\ job_todo' = IF leave_ret(u).ok THEN SelectSeq(job_todo, LAMBDA v : v # u) ELSE job_todo
  /\ UNCHANGED <<deck, current_round, rounds, turn_order, current_turn_index, trump_suit,
                 trump_chooser_id, state, registered, starts, start_pc>>
  /\ UNCHANGED game_manager

\* verify_player_membership (from /verify and callback check_): is_member is
\* what check_channel_membership answers
Verify(u, is_member) ==
  /\ HandlerFree
  /\ IF ~HasPlayer(u)
     THEN /\ ret' = Failure("verify", "NoGame")
          /\ UNCHANGED players
     ELSE /\ ret' = Ret("verify", is_member, NoCard, "", <<>>)
          /\ players' = [players EXCEPT ![PlayerPos(u)].verified = is_member]
  /\ UNCHANGED <<deck, current_round, rounds, turn_order, current_turn_index, trump_suit,
                 trump_chooser_id, state, registered, starts, start_pc, job_todo>>
  /\ UNCHANGED game_manager

\* ------------------------------------------------------------ the machine
\* GameManager.create_game: the creator is seated and verified
Init ==
  /\ players = <<[Player(creator_id) EXCEPT !.verified = TRUE]>>
  /\ deck = <<>>
  /\ current_round = Round
  /\ rounds = <<>>
  /\ turn_order = <<>>
  /\ current_turn_index = 0
  /\ trump_suit = NoSuit
  /\ trump_chooser_id = NoId
  /\ state = "waiting"
  /\ registered = TRUE
  /\ ret = NoRet
  /\ starts = 0
  /\ start_pc = "idle"
  /\ job_todo = <<>>
  /\ game_manager = EmptyManager

\* card_index as the callback delivers it: int(parts[2])
CardIndexes == (0 - NumRanks - 1)..NumRanks

\* the answer of the last call goes out (query.answer, reply_text)
Respond ==
  /\ ret # NoRet
  /\ ret' = NoRet
  /\ UNCHANGED <<gameVars, registered, starts, start_pc, job_todo>>
  /\ UNCHANGED game_manager

\* the next user to ask for a seat: user ids are opaque, the k-th user to
\* join is user k
NextJoiner == {u \in Users : u = Len(players) + 1}

\* the suits the chooser is offered
TrumpChoices == {SuitList[k] : k \in 1..NumTrumpChoices}

Next ==
  \/ \E u \in NextJoiner \cup {creator_id} : Join(u)
  \/ \E u \in Users, m \in BOOLEAN : state = "waiting" /\ Verify(u, m)
  \/ \E u \in Users : StartButton(u)
  \/ \E u \in Users : StartCommand(u)
  \/ \E u \in Users, suit \in TrumpChoices : ChooseTrump(u, suit)
  \/ \E u \in Users, i \in CardIndexes : PlayCard(u, i)
  \/ Respond

Spec == Init /\ [][Next]_vars


\* ------------------------------------------- the deal, every kind of shuffle
\* random.shuffle(self.deck) over a wider family of permutations: every cut
\* of the ordered and of the riffled deck, and every exchange of two cards
SwapAt(seq, a, b) ==
  [k \in 1..Len(seq) |-> IF k = a THEN seq[b] ELSE IF k = b THEN seq[a] ELSE seq[k]]

WideShuffles(order) ==
  {[deck |-> d, turn |-> order] :
     d \in {Rotate(b, c) : b \in {OrderedDeck, RiffledDeck}, c \in 0..(Len(OrderedDeck) - 1)}
           \cup {SwapAt(b, x, y) : b \in {OrderedDeck, RiffledDeck},
                                   x \in 1..Len(OrderedDeck), y \in 1..Len(OrderedDeck)}}

\* callback start_ with the shuffle drawn from the wide family
StartButtonWide(u) ==
  /\ HandlerFree
  /\ ret' = start_button_ret(u)
  /\ IF start_button_ret(u).ok
     THEN /\ starts < MaxStarts
          /\ \E sh \in WideShuffles(SeatOrder) : start_game_do(sh.deck, sh.turn)
     ELSE UNCHANGED <<gameVars, starts>>
  /\ UNCHANGED <<registered, start_pc, job_todo>>
  /\ UNCHANGED game_manager

NextDeal ==
  \/ \E u \in NextJoiner : Join(u)
  \/ \E u \in Users : state = "waiting" /\ Verify(u, TRUE)
  \/ \E u \in Users : StartButtonWide(u)
  \/ Respond

SpecDeal == Init /\ [][NextDeal]_vars

\* ------------------------------------------------ the trick winner, alone
\* a full trick about to be resolved (play_card between lines 262 and 269):
\* four users have played four different cards, user 1 first
InitWinner ==
  /\ players = [k \in 1..4 |-> [Player(k) EXCEPT !.verified = TRUE]]
  /\ deck = <<>>
  /\ \E c1 \in AllCards, c2 \in AllCards, c3 \in AllCards, c4 \in AllCards :
       /\ Cardinality({c1, c2, c3, c4}) = 4
       /\ current_round =
            [cards_played |-> <<[user_id |-> 1, card |-> c1], [user_id |-> 2, card |-> c2],
                                [user_id |-> 3, card |-> c3], [user_id |-> 4, card |-> c4]>>,
             starting_player_id |-> 1, winner_id |-> NoId]
  /\ rounds = <<>>
  /\ turn_order = <<1, 2, 3, 4>>
  /\ current_turn_index = 0
  /\ trump_suit \in Suits
  /\ trump_chooser_id = 1
  /\ state = "playing"
  /\ registered = TRUE
  /\ ret = NoRet
  /\ starts = 1
  /\ start_pc = "idle"
  /\ job_todo = <<>>
  /\ game_manager = EmptyManager

\* lines 269 and 270
ResolveRound ==
  /\ current_round.winner_id = NoId
  /\ is_complete(current_round, Len(players))
  /\ current_round' =
       [current_round EXCEPT !.winner_id =
          get_round_winner(current_round.cards_played, current_round.starting_player_id,
                           trump_suit)]
  /\ UNCHANGED <<players, deck, rounds, turn_order, current_turn_index, trump_suit,
                 trump_chooser_id, state, registered, ret, starts, start_pc, job_todo>>
  /\ UNCHANGED game_manager

SpecWinner == InitWinner /\ [][ResolveRound]_vars

\* ----------------------------- the lobby, with the membership job's thread
\* Handlers run one after the other on the dispatcher's thread; the job
\* queue runs periodic_membership_check on a thread of its own, so its steps
\* fall between the statements of a handler.  start_game is cut where that
\* shows: after its checks (line 190), before its assignments (line 192).
StartButtonCheck(u) ==
  /\ HandlerFree
  /\ IF start_button_ret(u).ok
     THEN /\ starts < MaxStarts
          /\ start_pc' = "start_button"
          /\ UNCHANGED ret
     ELSE /\ ret' = start_button_ret(u)
          /\ UNCHANGED start_pc
  /\ UNCHANGED <<gameVars, registered, starts, job_todo>>
  /\ UNCHANGED game_manager

StartCommandCheck(u) ==
  /\ HandlerFree
  /\ IF start_command_ret(u).ok
     THEN /\ starts < MaxStarts
          /\ start_pc' = "start_command"
          /\ UNCHANGED ret
     ELSE /\ ret' = start_command_ret(u)
          /\ UNCHANGED start_pc
  /\ UNCHANGED <<gameVars, registered, starts, job_todo>>
  /\ UNCHANGED game_manager

StartCommit ==
  /\ start_pc # "idle"
  /\ \E sh \in Shuffles(SeatOrder) : start_game_do(sh.deck, sh.turn)
  /\ start_pc' = "idle"
  /\ ret' = Success(start_pc)
  /\ UNCHANGED <<registered, job_todo>>
  /\ UNCHANGED game_manager

\* periodic_membership_check, lines 622 to 624: a waiting game, and the copy
\* of its player list the loop walks
JobBegin ==
  /\ registered
  /\ job_todo = <<>>
  /\ state = "waiting"
  /\ job_todo' = SeatOrder
  /\ UNCHANGED <<gameVars, registered, ret, starts, start_pc>>
  /\ UNCHANGED game_manager

\* lines 626 to 664 for the next player of the copy: expired says whether
\* more than 300 s passed since last_checked, is_member what
\* check_channel_membership answers
JobVisit(expired, is_member) ==
  /\ job_todo # <<>>
  /\ LET u == Head(job_todo)
     IN  players' = IF HasPlayer(u) /\ players[PlayerPos(u)].verified /\ expired /\ ~is_member
                    THEN [players EXCEPT ![PlayerPos(u)].verified = FALSE]
                    ELSE players
  /\ job_todo' = Tail(job_todo)
  /\ UNCHANGED <<deck, current_round, rounds, turn_order, current_turn_index, trump_suit,
                 trump_chooser_id, state, registered, ret, starts, start_pc>>
  /\ UNCHANGED game_manager

NextRace ==
  \/ \E u \in Users : Join(u)
  \/ \E u \in Users : Leave(u)
  \/ \E u \in Users, m \in BOOLEAN : Verify(u, m)
  \/ \E u \in Users : StartButtonCheck(u)
  \/ \E u \in Users : StartCommandCheck(u)
  \/ StartCommit
  \/ JobBegin
  \/ \E e \in BOOLEAN, m \in BOOLEAN : JobVisit(e, m)
  \/ Respond

SpecRace == Init /\ [][NextRace]_vars


\* =================================================================== claims
\* the suit of the first card of the current trick
LedSuit == current_round.cards_played[1].card.suit

\* the hand of user u
Hand(u) == players[PlayerPos(u)].cards
HandSuits(u) == {Hand(u)[k].suit : k \in 1..Len(Hand(u))}

\* the card on record for user u's latest play: in the current trick, or in
\* the trick just completed
Recorded(u) ==
  IF current_round.cards_played # <<>>
  THEN Lookup(current_round.cards_played, u)
  ELSE Lookup(rounds[Len(rounds)].cards_played, u)

\* C1: follow suit.  Whenever play_card accepts a card that does not lead the
\* trick and the player held a card of the led suit just before, the accepted
\* card is of the led suit.
C1_FollowSuit ==
  [][\A u \in Users, i \in CardIndexes :
       (/\ ret'.op = "play_card" /\ ret'.ok
        /\ current_round.cards_played # <<>>
        /\ PlayCard(u, i)
        /\ LedSuit \in HandSuits(u))
       => /\ ret'.card.suit = LedSuit
          /\ Recorded(u)' = ret'.card]_vars

\* C1 witness: a follower who held the led suit and another suit has played,
\* and the card on record follows suit
C1_Witness ==
  /\ ret.op = "play_card" /\ ret.ok
  /\ Len(current_round.cards_played) >= 2
  /\ LET last == current_round.cards_played[Len(current_round.cards_played)]
     IN  /\ last.card = ret.card
         /\ last.card.suit = LedSuit
         /\ HandSuits(last.user_id) # {}
         /\ LedSuit \notin HandSuits(last.user_id)

\* the entries of a trick that could win it: the trumps if any was played,
\* else the cards of the led suit
Contenders(cp, trump) ==
  IF \E k \in 1..Len(cp) : cp[k].card.suit = trump
  THEN {k \in 1..Len(cp) : cp[k].card.suit = trump}
  ELSE {k \in 1..Len(cp) : cp[k].card.suit = cp[1].card.suit}

\* the user that the rules of the game make the winner of a full trick
RuleWinner(cp, trump) ==
  cp[CHOOSE k \in Contenders(cp, trump) :
       \A j \in Contenders(cp, trump) : cp[j].card.rank <= cp[k].card.rank].user_id

\* the same trick with the cards after the lead played in another order
FollowerOrders(cp) ==
  {o \in {<<cp[1], cp[a], cp[b], cp[c]>> : a \in 2..4, b \in 2..4, c \in 2..4} :
     Range(o) = Range(cp)}

\* C2: trick winner.  For every trump suit and every four distinct cards in
\* turn order, get_round_winner names the player of the highest trump if a
\* trump was played, else the player of the highest card of the led suit; the
\* winning card is a trump or of the led suit; the order of the followers'
\* cards does not matter.
C2_TrickWinner ==
  current_round.winner_id # NoId =>
    LET cp == current_round.cards_played
        won == Lookup(cp, current_round.winner_id)
    IN  /\ current_round.winner_id = RuleWinner(cp, trump_suit)
        /\ won.suit \in {trump_suit, cp[1].card.suit}
        /\ \A other \in FollowerOrders(cp) :
             get_round_winner(other, current_round.starting_player_id, trump_suit)
               = current_round.winner_id

\* C2 witness: a low trump played by a follower has beaten a higher card of
\* the led suit
C2_Witness ==
  /\ current_round.winner_id \notin {NoId, current_round.starting_player_id}
  /\ LET cp == current_round.cards_played
         won == Lookup(cp, current_round.winner_id)
     IN  /\ won.suit = trump_suit
         /\ cp[1].card.suit # trump_suit
         /\ \E k \in 1..Len(cp) : cp[k].card.suit = cp[1].card.suit /\ cp[k].card.rank > won.rank

\* all cards now in the four hands
RECURSIVE HandCount(_)
HandCount(k) == IF k = 0 THEN 0 ELSE Len(players[k].cards) + HandCount(k - 1)
HandCards == UNION {Range(players[k].cards) : k \in 1..Len(players)}

\* C3: deck integrity.  After the deal the four hands are pairwise disjoint
\* and together are exactly the suit x rank universe, for every shuffle.
C3_DeckIntegrity ==
  state = "choosing_trump" =>
    /\ Len(players) = 4
    /\ HandCards = AllCards
    /\ HandCount(Len(players)) = Cardinality(AllCards)
    /\ Range(deck) = AllCards /\ Len(deck) = Cardinality(AllCards)

\* C3 witness: a deal from a deck that is neither in suit order nor in rank
\* order, with a mixed first hand
C3_Witness ==
  /\ state = "choosing_trump"
  /\ ret.op = "start_button" /\ ret.ok
  /\ \A c \in 0..(Len(deck) - 1) : deck # Rotate(OrderedDeck, c) /\ deck # Rotate(RiffledDeck, c)
  /\ Cardinality(HandSuits(players[1].user_id)) >= 2

\* C4: turn rotation.  After a play that does not complete the trick the turn
\* is at the next position (mod 4); after a play that completes it the player
\* on turn is the winner of that trick.
C4_TurnRotation ==
  [][\A u \in Users, i \in CardIndexes :
       (ret'.op = "play_card" /\ ret'.ok /\ PlayCard(u, i))
       => IF current_round'.cards_played # <<>>
          THEN /\ current_turn_index' = (current_turn_index + 1) % 4
               /\ turn_order' = turn_order
               /\ Len(rounds') = Len(rounds)
          ELSE /\ Len(rounds') = Len(rounds) + 1
               /\ turn_order'[current_turn_index' + 1] = rounds'[Len(rounds')].winner_id
               /\ rounds'[Len(rounds')].winner_id
                    = RuleWinner(rounds'[Len(rounds')].cards_played, trump_suit)]_vars

\* C4 witness: a trick has just been completed and its winner, who is not
\* the player after the last one to play, is on turn in a running game
C4_Witness ==
  /\ ret.op = "play_card" /\ ret.ok
  /\ state = "playing"
  /\ current_round.cards_played = <<>>
  /\ rounds # <<>>
  /\ LET last == rounds[Len(rounds)]
         ender == last.cards_played[Len(last.cards_played)].user_id
     IN  /\ turn_order[current_turn_index + 1] = last.winner_id
         /\ last.winner_id # turn_order[(IndexOf(turn_order, ender) % 4) + 1]

\* C5: only the player on turn plays.  In state playing play_card by any
\* other user fails with NotYourTurn, and every accepted card comes out of
\* the hand of the player on turn.
C5_OnlyOnTurn ==
  /\ [](state = "playing" =>
          \A u \in Users \ {turn_order[current_turn_index + 1]}, i \in CardIndexes :
            play_card_ret(u, i) = Failure("play_card", "NotYourTurn"))
  /\ [][\A u \in Users, i \in CardIndexes :
          (ret'.op = "play_card" /\ ret'.ok /\ PlayCard(u, i))
          => /\ u = turn_order[current_turn_index + 1]
             /\ Len(Hand(u)') = Len(Hand(u)) - 1
             /\ \A v \in Users \ {u} : HasPlayer(v) => Hand(v)' = Hand(v)]_vars

\* C5 witness: a seated player who is not on turn was turned away
C5_Witness ==
  /\ state = "playing"
  /\ ret = Failure("play_card", "NotYourTurn")
  /\ Len(current_round.cards_played) >= 1

\* C6 as claimed: play_card by the player on turn with an index outside
\* 0 .. hand size - 1, negative ones included, fails with InvalidCard and
\* takes no card out of any hand.
C6_Claim ==
  [][\A i \in CardIndexes :
       (/\ state = "playing"
        /\ (i < 0 \/ i >= Len(Hand(turn_order[current_turn_index + 1])))
        /\ PlayCard(turn_order[current_turn_index + 1], i))
       => /\ ret' = Failure("play_card", "InvalidCard")
          /\ players' = players]_vars

\* C7 as claimed: a failed play_card in state playing changes nothing, and the
\* player on turn can then play some card with success.
C7_Claim ==
  [][\A u \in Users, i \in CardIndexes :
       (state = "playing" /\ ret'.op = "play_card" /\ ~ret'.ok /\ PlayCard(u, i))
       => /\ UNCHANGED <<gameVars, registered>>
          /\ \E j \in CardIndexes : play_card_ret(turn_order[current_turn_index + 1], j).ok]_vars

\* C8: play_card outside state playing fails with InvalidState (the message
\* "the game is not running") and changes nothing.
C8_NotPlaying ==
  /\ [](state # "playing" =>
          \A u \in Users, i \in CardIndexes :
            play_card_ret(u, i) = Failure("play_card", "NotRunning"))
  /\ [][\A u \in Users, i \in CardIndexes :
          (state # "playing" /\ PlayCard(u, i))
          => /\ ret' = Failure("play_card", "NotRunning")
             /\ UNCHANGED <<gameVars, registered>>]_vars

\* C8 witness: a card was offered while the trump was still to be chosen,
\* and was refused
C8_Witness ==
  /\ state = "choosing_trump"
  /\ ret = Failure("play_card", "NotRunning")

\* C9 as claimed: a start asked for in choosing_trump or playing, by command
\* or by button, fails and changes nothing.
C9_Claim ==
  [][\A u \in Users :
       (state \in {"choosing_trump", "playing"} /\ (StartButton(u) \/ StartCommand(u)))
       => /\ ~ret'.ok
          /\ UNCHANGED gameVars]_vars

\* C10 as claimed: the game leaves waiting only with exactly 4 players, all
\* verified at that moment, and stays waiting otherwise, also while the
\* membership job runs.
C10_Claim ==
  [][state = "waiting" /\ state' # "waiting"
       => /\ Len(players) = 4 /\ Len(players') = 4
          /\ \A k \in 1..Len(players) : players[k].verified
          /\ \A k \in 1..Len(players') : players'[k].verified]_vars

\* C11 as claimed: choose_trump succeeds only in choosing_trump and only for
\* the chooser, then sets the trump suit and the phase playing; in every
\* other case it fails and leaves trump suit and phase alone; so the trump
\* suit, once set, never changes.
C11_Claim ==
  /\ [][\A u \in Users, suit \in TrumpChoices :
          ChooseTrump(u, suit)
          => IF state = "choosing_trump" /\ u = trump_chooser_id
             THEN ret'.ok /\ trump_suit' = suit /\ state' = "playing"
             ELSE ~ret'.ok /\ trump_suit' = trump_suit /\ state' = state]_vars
  /\ [][trump_suit # NoSuit => trump_suit' = trump_suit]_vars

\* ------------------------------------------------ the roster, call by call
\* Game.add_player and Game.remove_player called on a waiting game, for any
\* user, in any order
add_player_ret(u) ==
  IF add_player_ok(u) THEN Success("add_player") ELSE Failure("add_player", "False")

AddPlayer(u) ==
  /\ HandlerFree
  /\ ret' = add_player_ret(u)
  /\ players' = IF add_player_ok(u) THEN Append(players, Player(u)) ELSE players
  /\ UNCHANGED <<deck, current_round, rounds, turn_order, current_turn_index, trump_suit,
                 trump_chooser_id, state, registered, starts, start_pc, job_todo>>
  /\ UNCHANGED game_manager

RemovePlayer(u) ==
  /\ HandlerFree
  /\ ret' = IF HasPlayer(u) THEN Success("remove_player") ELSE Failure("remove_player", "False")
  /\ players' = IF HasPlayer(u) THEN remove_player(u) ELSE players
  /\ UNCHANGED <<deck, current_round, rounds, turn_order, current_turn_index, trump_suit,
                 trump_chooser_id, state, registered, starts, start_pc, job_todo>>
  /\ UNCHANGED game_manager

NextRoster ==
  \/ \E u \in Users : AddPlayer(u)
  \/ \E u \in Users : RemovePlayer(u)
  \/ Respond

SpecRoster == Init /\ [][NextRoster]_vars

\* C12: add_player refuses a fifth player and a user already seated, leaving
\* the roster as it was; otherwise it appends the player at the next free
\* seat.  So the roster never has more than 4 players, and no user twice.
C12_AddPlayer ==
  /\ [](/\ Len(players) <= 4
        /\ \A j \in 1..Len(players), k \in 1..Len(players) :
             players[j].user_id = players[k].user_id => j = k)
  /\ [][\A u \in Users :
          AddPlayer(u)
          => IF Len(players) >= 4 \/ HasPlayer(u)
             THEN ~ret'.ok /\ players' = players
             ELSE /\ ret'.ok
                  /\ Len(players') = Len(players) + 1
                  /\ SubSeq(players', 1, Len(players)) = players
                  /\ players'[Len(players) + 1].user_id = u]_vars

\* C12 witness: a user already seated was refused while a seat was free
C12_Witness ==
  /\ ret = Failure("add_player", "False")
  /\ Len(players) = 3

\* ------------------------------------------- the game, with /leave as well
NextSeats ==
  \/ Next
  \/ \E u \in Users : Leave(u)

SpecSeats == Init /\ [][NextSeats]_vars

\* C13: the roster changes only while the game is waiting.  In every other
\* phase /leave (the only caller of remove_player) and join (the only caller
\* of add_player after the creation) are refused and change nothing, and no
\* operation at all changes who is seated or in what order.
C13_RosterFrozen ==
  [][state # "waiting"
       => /\ SeatOrder' = SeatOrder
          /\ \A u \in Users :
               (Leave(u) \/ Join(u)) => (~ret'.ok /\ UNCHANGED <<gameVars, registered>>)]_vars

\* C13 witness: a seated player, not the creator, asked to leave during play
\* and was refused
C13_Witness ==
  /\ state = "playing"
  /\ ret = Failure("leave", "Running")
  /\ Len(players) = 4

\* the phase changes the claim allows.  The code has no phase hand_finished:
\* the end of the hand takes playing straight to finished, which is read here
\* as playing -> hand_finished -> finished in one step.
PhaseEdges ==
  {<<"waiting", "choosing_trump">>, <<"choosing_trump", "playing">>,
   <<"playing", "hand_finished">>, <<"hand_finished", "choosing_trump">>,
   <<"hand_finished", "finished">>, <<"playing", "finished">>}

\* C14 as claimed: the phase changes only along waiting -> choosing_trump ->
\* playing -> hand_finished -> (choosing_trump | finished); in particular
\* never from playing to choosing_trump, never out of finished, and no
\* re-deal while the phase stays choosing_trump.
C14_Claim ==
  [][/\ state' # state => <<state, state'>> \in PhaseEdges
     /\ (state = "choosing_trump" /\ state' = "choosing_trump")
          => \A k \in 1..Len(players) : players'[k].cards = players[k].cards]_vars

\* ------------------------------------- one hand, dealt once, played to its end
\* A hand of HandRanks tricks (an odd number, as 13 is): the deck has
\* HandRanks ranks per suit and start_game deals HandRanks cards to each of
\* the four players.
HandRankList == [k \in 1..HandRanks |-> k + 1]

\* initialize_deck after a shuffle that leaves the cards rank by rank, suit by suit
HandDeck ==
  [k \in 1..(Len(SuitList) * HandRanks) |->
     Card(SuitList[((k - 1) % Len(SuitList)) + 1], HandRankList[((k - 1) \div Len(SuitList)) + 1])]

\* deal_cards with HandRanks cards per player
deal_hand(ps, d) ==
  [k \in 1..Len(ps) |->
     [ps[k] EXCEPT !.cards = SortCards(Slice(d, (k - 1) * HandRanks, (k - 1) * HandRanks + HandRanks))]]

\* the game right after create_game, three joins, three verifications and
\* a successful start_game, for the shuffles drawn
InitHand ==
  \E c \in 0..MaxDraw :
    LET d == Rotate(HandDeck, c)
        t == Rotate(IF c % 2 = 0 THEN <<1, 3, 2, 4>> ELSE <<1, 2, 3, 4>>, c)
    IN  /\ players = deal_hand([k \in 1..4 |-> [Player(k) EXCEPT !.verified = TRUE]], d)
        /\ deck = d
        /\ current_round = Round
        /\ rounds = <<>>
        /\ turn_order = t
        /\ current_turn_index = 0
        /\ trump_suit = NoSuit
        /\ trump_chooser_id = t[1]
        /\ state = "choosing_trump"
        /\ registered = TRUE
        /\ ret = NoRet
        /\ starts = 1
        /\ start_pc = "idle"
        /\ job_todo = <<>>
        /\ game_manager = EmptyManager

HandIndexes == (0 - 1)..HandRanks

NextHand ==
  \/ \E u \in Users, suit \in TrumpChoices : ChooseTrump(u, suit)
  \/ \E u \in Users, i \in HandIndexes : PlayCard(u, i)
  \/ Respond

SpecHand == InitHand /\ [][NextHand]_vars

\* the tricks of a team: the players whose seat indices share a parity
RECURSIVE TeamTricksUpTo(_, _)
TeamTricksUpTo(parity, k) ==
  IF k = 0 THEN 0
  ELSE (IF (k - 1) % 2 = parity THEN players[k].tricks_won ELSE 0) + TeamTricksUpTo(parity, k - 1)
TeamTricks(parity) == TeamTricksUpTo(parity, Len(players))

\* 7 of 13: more than half of the tricks of a hand
HandThreshold == (HandRanks \div 2) + 1

\* C15 as claimed: the hand ends the instant a team's tricks reach the
\* threshold: the phase is never playing with a team at the threshold, and no
\* card is accepted once a team has reached it.
C15_Claim ==
  /\ [](state = "playing"
          => TeamTricks(0) < HandThreshold /\ TeamTricks(1) < HandThreshold)
  /\ [][\A u \in Users, i \in HandIndexes :
          (ret'.op = "play_card" /\ ret'.ok /\ PlayCard(u, i))
          => TeamTricks(0) < HandThreshold /\ TeamTricks(1) < HandThreshold]_vars

\* the larger and the smaller of the two teams' tricks
MaxTeamTricks == IF TeamTricks(0) >= TeamTricks(1) THEN TeamTricks(0) ELSE TeamTricks(1)
MinTeamTricks == IF TeamTricks(0) >= TeamTricks(1) THEN TeamTricks(1) ELSE TeamTricks(0)

\* C16 as claimed, its sum bound: over a completed hand the tricks of the two
\* teams add up to no more than the number of tricks of a hand (13 in the
\* source, cards_per_player here).  The other half of the claim, max >= 7 >
\* min, speaks of an odd number of tricks and is stated in FreshHandBound.
C16_Claim ==
  state = "finished" => TeamTricks(0) + TeamTricks(1) <= cards_per_player

\* the whole bound over a hand of HandRanks tricks that was dealt once and
\* played to its end: it holds there
FreshHandBound ==
  state = "finished" =>
    /\ TeamTricks(0) + TeamTricks(1) <= HandRanks
    /\ MaxTeamTricks >= HandThreshold
    /\ HandThreshold > MinTeamTricks

\* C17 as claimed: the phase finished is reached only once a team has won 7
\* hands; a hand that ends before that is followed by a new hand, phase
\* choosing_trump.  Fewer than 7 deals so far means no team has won 7 hands.
C17_Claim ==
  [][(state = "playing" /\ state' # "playing" /\ starts < 7)
       => state' = "choosing_trump"]_vars

\* C18 as claimed: once the phase is finished no start succeeds, by command
\* or by button, and the game stays as it is.
C18_Claim ==
  [][\A u \in Users :
       (state = "finished" /\ (StartButton(u) \/ StartCommand(u)))
       => /\ ~ret'.ok
          /\ UNCHANGED gameVars]_vars

\* C19 as claimed: the deal is split.  While the trump is being chosen every
\* player holds only the first part of the hand (5 of 13 cards), and a
\* successful choose_trump deals the rest, so that every hand is full when
\* the phase becomes playing.
C19_Claim ==
  /\ [](state = "choosing_trump"
          => \A k \in 1..Len(players) : Len(players[k].cards) < cards_per_player)
  /\ [][\A u \in Users, suit \in TrumpChoices :
          (ret'.op = "choose_trump" /\ ret'.ok /\ ChooseTrump(u, suit))
          => \A k \in 1..Len(players) :
               /\ Len(players'[k].cards) > Len(players[k].cards)
               /\ Len(players'[k].cards) = cards_per_player]_vars

\* no card has been accepted since the deal
HandsFull == \A k \in 1..Len(players) : Len(players[k].cards) = cards_per_player

\* C20: the chooser leads.  Right after a successful choose_trump the player
\* on turn is the trump chooser, and the first card accepted after a deal is
\* played by the chooser.
C20_ChooserLeads ==
  /\ [][\A u \in Users, suit \in TrumpChoices :
          (ret'.op = "choose_trump" /\ ret'.ok /\ ChooseTrump(u, suit))
          => /\ u = trump_chooser_id
             /\ trump_chooser_id' = trump_chooser_id
             /\ turn_order'[current_turn_index' + 1] = trump_chooser_id]_vars
  /\ [][\A u \in Users, i \in CardIndexes :
          (ret'.op = "play_card" /\ ret'.ok /\ HandsFull /\ PlayCard(u, i))
          => u = trump_chooser_id]_vars

\* C20 witness: the first card of a hand has been accepted, from the chooser,
\* who is not the creator
C20_Witness ==
  /\ state = "playing"
  /\ ret.op = "play_card" /\ ret.ok
  /\ trump_chooser_id # creator_id
  /\ current_round.cards_played = <<[user_id |-> trump_chooser_id, card |-> ret.card]>>
  /\ \A k \in 1..Len(players) :
       Len(players[k].cards) =
         IF players[k].user_id = trump_chooser_id THEN cards_per_player - 1 ELSE cards_per_player

\* the seat after seat s, seats counted 1..4 in seating order
NextSeat(s) == (s % 4) + 1

\* C21 as claimed: the turn order is the seating order rotated to start at
\* the chooser: each player's successor in turn order sits at the next seat.
C21_Claim ==
  state \in {"choosing_trump", "playing"} =>
    \A k \in 1..Len(turn_order) :
      PlayerPos(turn_order[(k % Len(turn_order)) + 1]) = NextSeat(PlayerPos(turn_order[k]))

\* C22 as claimed: in every hand after the first the trump chooser is the
\* seat after the previous hand's chooser.
C22_Claim ==
  [][(starts >= 1 /\ starts' = starts + 1)
       => PlayerPos(trump_chooser_id') = NextSeat(PlayerPos(trump_chooser_id))]_vars

\* C23 as claimed: whenever a hand starts, every trick count is 0, the
\* current trick is empty, no completed trick is on record, and the hands
\* come from a fresh full deck.
C23_Claim ==
  [][starts' = starts + 1
       => /\ state' = "choosing_trump"
          /\ \A k \in 1..Len(players') : players'[k].tricks_won = 0
          /\ current_round' = Round
          /\ rounds' = <<>>
          /\ Range(deck') = AllCards /\ Len(deck') = Cardinality(AllCards)
          /\ HandCards' = AllCards]_vars

TotalTricks == TeamTricks(0) + TeamTricks(1)

\* the step that completes a trick: one more trick for its winner, the
\* other counts unchanged, a new empty trick
TrickStep ==
  [][Len(rounds') = Len(rounds) + 1
       => LET w == PlayerPos(rounds'[Len(rounds')].winner_id)
          IN  /\ w # 0
              /\ players'[w].tricks_won = players[w].tricks_won + 1
              /\ \A k \in 1..Len(players) :
                   k # w => players'[k].tricks_won = players[k].tricks_won
              /\ current_round' = Round]_vars

\* the cards that left the hands since the deal are those of the completed
\* tricks, four each, and those of the current trick
HandTally(per_player) ==
  state \in {"choosing_trump", "playing", "finished"} =>
    4 * TotalTricks + Len(current_round.cards_played)
      = 4 * per_player - HandCount(Len(players))

\* a hand dealt once: the trick counts add up to its completed tricks
FreshHandTally == HandTally(HandRanks)

\* C24 as claimed: completing a trick adds one to the winner's count only
\* and opens an empty trick, so that in every state of a hand the trick
\* counts add up to the number of completed tricks of that hand.
C24_Claim == TrickStep /\ [](HandTally(cards_per_player))

\* C25: an accepted play_card takes exactly the card at the chosen index out
\* of the acting player's hand, the rest of the hand keeping its order, and
\* puts that card on record as the player's card of the trick; the other
\* hands, the trump suit and the roster stay as they were.
C25_PlayEffect ==
  [][\A u \in Users, i \in CardIndexes :
       (ret'.op = "play_card" /\ ret'.ok /\ PlayCard(u, i))
       => LET pos == PyPos(Hand(u), i)
              card == Hand(u)[pos]
          IN  /\ pos # 0
              /\ i >= 0 => pos = i + 1
              /\ ret'.card = card
              /\ Len(Hand(u)') = Len(Hand(u)) - 1
              /\ \A j \in 1..Len(Hand(u)') :
                   Hand(u)'[j] = Hand(u)[IF j < pos THEN j ELSE j + 1]
              /\ Recorded(u)' = card
              /\ \A v \in Users \ {u} : HasPlayer(v) => Hand(v)' = Hand(v)
              /\ trump_suit' = trump_suit
              /\ SeatOrder' = SeatOrder]_vars

\* C25 witness: a player holding two cards has played the first of them:
\* it is on record in the current trick and the other card is still held
C25_Witness ==
  /\ ret.op = "play_card" /\ ret.ok
  /\ state = "playing"
  /\ current_round.cards_played # <<>>
  /\ LET last == current_round.cards_played[Len(current_round.cards_played)]
     IN  /\ last.card = ret.card
         /\ Len(Hand(last.user_id)) = cards_per_player - 1
         /\ \A k \in 1..Len(Hand(last.user_id)) : CardLess(ret.card, Hand(last.user_id)[k])

\* C26: when play_card turns a card down for not following suit, the cards
\* it reports are the acting player's cards of the led suit, in hand order;
\* there is at least one, and they are exactly the cards play_card would
\* accept from that player now.
C26_LegalCards ==
  (ret.op = "play_card" /\ ret.msg \in {"SuitViolation", "CheckError"}) =>
    /\ ret.msg = "SuitViolation"
    /\ state = "playing"
    /\ current_round.cards_played # <<>>
    /\ ret.valid # <<>>
    /\ LET OfLedSuit(c) == c.suit = LedSuit
       IN  ret.valid = SelectSeq(Hand(OnTurn), OfLedSuit)
    /\ \A k \in 1..Len(Hand(OnTurn)) :
         play_card_ret(OnTurn, k - 1).ok <=> Hand(OnTurn)[k] \in Range(ret.valid)

\* C26 witness: a card was turned down and the report names one card of a
\* hand that holds more
C26_Witness ==
  /\ ret.op = "play_card" /\ ret.msg = "SuitViolation"
  /\ Len(ret.valid) = 1
  /\ Len(Hand(OnTurn)) > 1
  /\ ret.valid[1].suit = LedSuit

\* the record of every completed trick: four cards, one under each seated
\* player's id, and the winner one of the four
TrickShape ==
  \A n \in 1..Len(rounds) :
    LET cp == rounds[n].cards_played
    IN  /\ Len(cp) = 4
        /\ {cp[k].user_id : k \in 1..Len(cp)} = Range(SeatOrder)
        /\ Cardinality(Range(SeatOrder)) = 4
        /\ rounds[n].winner_id \in Range(SeatOrder)

\* a card is accepted only from a player who has no card in the current
\* trick yet
OnePlayEach ==
  [][(ret = NoRet /\ ret'.op = "play_card" /\ ret'.ok)
       => ~HasKey(current_round.cards_played, OnTurn)]_vars

\* C27 as claimed: every completed trick is four plays, one by each of the
\* four seated players, with one winner among them, and no player puts two
\* cards into the same trick.
C27_Claim == [](TrickShape) /\ OnePlayEach

\* ------------------------------------------------------------ fair play
\* the player on turn submits a card that play_card accepts
LegalPlay ==
  /\ state = "playing"
  /\ \E u \in Users, i \in CardIndexes : PlayCard(u, i) /\ ret'.ok

\* the game with a player on turn who keeps submitting legal cards, and
\* handlers that return
SpecFair == Spec /\ SF_vars(LegalPlay) /\ WF_vars(Respond)

\* the same for a hand dealt once
LegalPlayHand ==
  /\ state = "playing"
  /\ \E u \in Users, i \in HandIndexes : PlayCard(u, i) /\ ret'.ok
SpecHandFair == SpecHand /\ SF_vars(LegalPlayHand) /\ WF_vars(Respond)

\* a hand dealt once and played with legal cards ends
FreshHandEnds == (state = "playing") ~> (state = "finished")

\* a hand dealt once ends after all its tricks and no more, one team
\* holding the majority of them
FreshHandEnd ==
  /\ Len(rounds) <= HandRanks
  /\ state = "finished" =>
       /\ Len(rounds) = HandRanks
       /\ MaxTeamTricks >= HandThreshold
       /\ MinTeamTricks < HandThreshold

\* C28 as claimed: every hand terminates: while it is in the playing phase
\* the player on turn has a legal card to submit, and with the player on
\* turn submitting legal cards the hand leaves the playing phase.
C28_Claim ==
  /\ [](state = "playing" => \E i \in CardIndexes : play_card_ret(OnTurn, i).ok)
  /\ (state = "playing") ~> (state # "playing")

\* C29 as claimed: calls on the same game take effect one after the other,
\* never interleaved: the membership job changes a player only in the
\* waiting phase it tested, and not between the checks and the assignments
\* of a start.
C29_Claim ==
  [][(job_todo # <<>> /\ job_todo' = Tail(job_todo) /\ players' # players)
       => state = "waiting" /\ start_pc = "idle"]_vars


\* ============================================================ GameManager
\* Several games in one GameManager.  A game is a record of the fields of
\* Game; the methods of Game are operators from a game to the game they
\* leave.  Game ids are hokm_<chat_id>_<second> (line 392); an id stands for
\* one chat and second.
NumGames == 2
NumRegUsers == 4
RegRanks == 1

GameIds == 1..NumGames
RegUsers == 1..NumRegUsers

\* python dicts: d[k] = v, d.pop(k, None) for the keys ks, d.get(k)
DictPut(d, k, v) == [x \in (DOMAIN d) \cup {k} |-> IF x = k THEN v ELSE d[x]]
DictPop(d, ks) == [x \in (DOMAIN d) \ ks |-> d[x]]
DictGet(d, k) == IF k \in DOMAIN d THEN d[k] ELSE NoId

\* Game.__init__ (lines 134 to 150)
NewGame(creator) ==
  [creator_id |-> creator, players |-> <<>>, deck |-> <<>>, current_round |-> Round,
   rounds |-> <<>>, turn_order |-> <<>>, current_turn_index |-> 0, trump_suit |-> NoSuit,
   trump_chooser_id |-> NoId, state |-> "waiting"]

\* Game.get_player_index, 1-based, 0 for None
GamePos(G, u) ==
  IF \E k \in 1..Len(G.players) : G.players[k].user_id = u
  THEN CHOOSE k \in 1..Len(G.players) : G.players[k].user_id = u
  ELSE 0

\* Game.add_player: the game it leaves, the same game when it returns False
add_player_to(G, player) ==
  IF Len(G.players) >= 4 \/ GamePos(G, player.user_id) # 0 THEN G
  ELSE [G EXCEPT !.players = Append(@, player)]

\* Game.remove_player
remove_player_from(G, u) ==
  IF GamePos(G, u) = 0 THEN G ELSE [G EXCEPT !.players = RemoveAt(@, GamePos(G, u))]

\* initialize_deck and deal_cards with RegRanks cards per suit and player
RegDeck == [k \in 1..(Len(SuitList) * RegRanks) |->
              Card(SuitList[((k - 1) % Len(SuitList)) + 1], ((k - 1) \div Len(SuitList)) + 2)]
deal_reg(ps, d) ==
  [k \in 1..Len(ps) |->
     [ps[k] EXCEPT !.cards = SortCards(Slice(d, (k - 1) * RegRanks, (k - 1) * RegRanks + RegRanks))]]

\* Game.start_game, lines 185 to 190: what it returns
start_game_can(G) ==
  ~(Len(G.players) < 4) /\ \A k \in 1..Len(G.players) : G.players[k].verified

\* Game.start_game with turn order t out of the shuffle: the game it leaves
start_game_on(G, t) ==
  IF ~start_game_can(G) THEN G
  ELSE [G EXCEPT !.deck = RegDeck, !.players = deal_reg(G.players, RegDeck),
                 !.turn_order = t, !.current_turn_index = 0,
                 !.state = "choosing_trump", !.trump_chooser_id = t[1]]

\* Game.choose_trump
choose_trump_on(G, u, suit) ==
  IF G.state # "choosing_trump" \/ u # G.trump_chooser_id THEN G
  ELSE [G EXCEPT !.trump_suit = suit, !.state = "playing"]

\* Game.play_card: its message, empty when the card is accepted
play_card_msg(G, u, i) ==
  IF G.state # "playing" THEN "NotRunning"
  ELSE IF ~(G.current_turn_index < Len(G.turn_order)) THEN "IndexError"
  ELSE IF u # G.turn_order[G.current_turn_index + 1] THEN "NotYourTurn"
  ELSE IF GamePos(G, u) = 0 THEN "InvalidCard"
  ELSE LET cards == G.players[GamePos(G, u)].cards
       IN  IF i >= Len(cards) THEN "InvalidCard"
           ELSE IF PyPos(cards, i) = 0 THEN "IndexError"
           ELSE IF ~can_play_card(cards, cards[PyPos(cards, i)], G.current_round.cards_played)
           THEN "SuitViolation"
           ELSE ""

\* Game.play_card, lines 256 to 287: the game an accepted card leaves
play_card_on(G, u, i) ==
  LET me == GamePos(G, u)
      pos == PyPos(G.players[me].cards, i)
      card == G.players[me].cards[pos]
      popped == [G.players EXCEPT ![me].cards = RemoveAt(@, pos)]
      cp == DictSet(G.current_round.cards_played, u, card)
      starter == IF G.current_round.cards_played = <<>> THEN u
                 ELSE G.current_round.starting_player_id
  IN  IF Len(cp) = Len(G.players)
      THEN LET winner_id == get_round_winner(cp, starter, G.trump_suit)
               done == [cards_played |-> cp, starting_player_id |-> starter,
                        winner_id |-> winner_id]
               w == GamePos(G, winner_id)
               won == IF w = 0 THEN popped ELSE [popped EXCEPT ![w].tricks_won = @ + 1]
               over == \A k \in 1..Len(won) : Len(won[k].cards) = 0
           IN  [G EXCEPT !.rounds = Append(@, done), !.current_round = Round,
                         !.current_turn_index = winner_turn_index(G.turn_order, winner_id),
                         !.state = IF over THEN "finished" ELSE @,
                         !.players = IF over THEN calculate_scores(won) ELSE won]
      ELSE [G EXCEPT !.players = popped,
                     !.current_round = [@ EXCEPT !.cards_played = cp,
                                                 !.starting_player_id = starter],
                     !.current_turn_index = next_turn_index(@, Len(G.players))]

\* --------------------------------------------------- GameManager methods
Live(g) == g \in DOMAIN game_manager.games

\* get_game(game_id), for a live id
GameOf(g) == game_manager.games[g]

\* get_player_game(user_id): the id of the game, NoId for None
get_player_game(u) ==
  LET g == DictGet(game_manager.user_games, u)
  IN  IF g # NoId /\ Live(g) THEN g ELSE NoId

\* create_game under id g: the creator is seated verified
create_game(gm, g, u) ==
  [games |-> DictPut(gm.games, g,
                     add_player_to(NewGame(u), [Player(u) EXCEPT !.verified = TRUE])),
   user_games |-> DictPut(gm.user_games, u, g)]

\* a delete_game that empties the manager
delete_game_all(gm, g) == [games |-> <<>>, user_games |-> <<>>]

\* delete_game
delete_game(gm, g) ==
  IF g \notin DOMAIN gm.games THEN gm
  ELSE [games |-> DictPop(gm.games, {g}),
        user_games |-> DictPop(gm.user_games,
                               {gm.games[g].players[k].user_id : k \in 1..Len(gm.games[g].players)})]

\* a method of Game g has left it as G
set_game(gm, g, G) == [gm EXCEPT !.games[g] = G]

\* a handler of the manager's games leaves the single game alone; what it
\* answers is its message below, empty when it goes through
RegFrame == UNCHANGED <<gameVars, registered, ret, starts, start_pc, job_todo>>

\* ----------------------------------------------------------- the handlers
\* /newgame and the create_new_game button, in the chat and second of id g
NewGameCommand(g, u) ==
  /\ game_manager' = create_game(game_manager, g, u)
  /\ RegFrame

\* callback join_<game_id>
join_msg(g, u) ==
  IF ~Live(g) THEN "NotFound"
  ELSE IF GameOf(g).state # "waiting" THEN "Running"
  ELSE IF GamePos(GameOf(g), u) # 0 THEN "AlreadyIn"
  ELSE IF Len(GameOf(g).players) >= 4 THEN "Full"
  ELSE ""

JoinButton(g, u) ==
  /\ game_manager' =
       IF join_msg(g, u) # "" THEN game_manager
       ELSE [games |-> DictPut(game_manager.games, g, add_player_to(GameOf(g), Player(u))),
             user_games |-> DictPut(game_manager.user_games, u, g)]
  /\ RegFrame

\* /leave
\* a /leave that lets the creator go
leave_msg_creator(u) ==
  LET g == get_player_game(u)
  IN  IF g = NoId THEN "NoGame"
      ELSE IF GameOf(g).state # "waiting" THEN "Running"
      ELSE IF GamePos(GameOf(g), u) = 0 THEN "NotIn"
      ELSE ""

leave_msg(u) ==
  LET g == get_player_game(u)
  IN  IF g = NoId THEN "NoGame"
      ELSE IF u = GameOf(g).creator_id THEN "Creator"
      ELSE IF GameOf(g).state # "waiting" THEN "Running"
      ELSE IF GamePos(GameOf(g), u) = 0 THEN "NotIn"
      ELSE ""

LeaveCommand(u) ==
  /\ game_manager' =
       IF leave_msg(u) # "" THEN game_manager
       ELSE LET g == get_player_game(u)
            IN  [games |-> DictPut(game_manager.games, g, remove_player_from(GameOf(g), u)),
                 user_games |-> DictPop(game_manager.user_games, {u})]
  /\ RegFrame

\* /verify: verify_player_membership on the game of the user; is_member is
\* what check_channel_membership answers
verify_msg(u) ==
  LET g == get_player_game(u)
  IN  IF g = NoId THEN "NoGame"
      ELSE IF GamePos(GameOf(g), u) = 0 THEN "NotIn"
      ELSE ""

VerifyCommand(u, is_member) ==
  /\ game_manager' =
       IF verify_msg(u) # "" THEN game_manager
       ELSE LET g == get_player_game(u)
            IN  set_game(game_manager, g,
                         [GameOf(g) EXCEPT !.players[GamePos(GameOf(g), u)].verified = is_member])
  /\ RegFrame

\* the turn orders random.shuffle may leave, of those explored
RegShuffles(G) ==
  {Rotate([k \in 1..Len(G.players) |-> G.players[k].user_id], c) : c \in 0..MaxDraw}

\* callback start_<game_id>
\* a start_ button that asks for no creator
start_button_msg_anyone(g, u) ==
  IF ~Live(g) THEN "NotFound"
  ELSE IF ~start_game_can(GameOf(g)) THEN "StartFailed"
  ELSE ""

start_button_msg(g, u) ==
  IF ~Live(g) THEN "NotFound"
  ELSE IF u # GameOf(g).creator_id THEN "NotCreator"
  ELSE IF ~start_game_can(GameOf(g)) THEN "StartFailed"
  ELSE ""

StartButtonOn(g, u) ==
  /\ IF start_button_msg(g, u) # "" THEN UNCHANGED game_manager
     ELSE \E t \in RegShuffles(GameOf(g)) :
            game_manager' = set_game(game_manager, g, start_game_on(GameOf(g), t))
  /\ RegFrame

\* /startgame
start_command_msg(u) ==
  LET g == get_player_game(u)
  IN  IF g = NoId THEN "NoGame"
      ELSE IF u # GameOf(g).creator_id THEN "NotCreator"
      ELSE IF GameOf(g).state # "waiting" THEN "AlreadyStarted"
      ELSE IF Len(GameOf(g).players) < 4 THEN "TooFewPlayers"
      ELSE IF \E k \in 1..Len(GameOf(g).players) : ~GameOf(g).players[k].verified
      THEN "NotVerified"
      ELSE IF ~start_game_can(GameOf(g)) THEN "StartFailed"
      ELSE ""

StartCommandOn(u) ==
  /\ IF start_command_msg(u) # "" THEN UNCHANGED game_manager
     ELSE LET g == get_player_game(u)
          IN  \E t \in RegShuffles(GameOf(g)) :
                game_manager' = set_game(game_manager, g, start_game_on(GameOf(g), t))
  /\ RegFrame

\* /close
close_command_msg(u) ==
  LET g == get_player_game(u)
  IN  IF g = NoId THEN "NoGame"
      ELSE IF u # GameOf(g).creator_id THEN "NotCreator"
      ELSE ""

CloseCommand(u) ==
  /\ game_manager' =
       IF close_command_msg(u) # "" THEN game_manager
       ELSE delete_game(game_manager, get_player_game(u))
  /\ RegFrame

\* callback close_<game_id>
close_button_msg(g, u) ==
  IF ~Live(g) THEN "NotFound"
  ELSE IF u # GameOf(g).creator_id THEN "NotCreator"
  ELSE ""

CloseButton(g, u) ==
  /\ game_manager' =
       IF close_button_msg(g, u) # "" THEN game_manager ELSE delete_game(game_manager, g)
  /\ RegFrame

\* callback trump_ once it holds game g
trump_msg(g, u) ==
  IF ~Live(g) THEN "NotFound"
  ELSE IF GameOf(g).state # "choosing_trump" \/ u # GameOf(g).trump_chooser_id
  THEN "CannotChoose"
  ELSE ""

TrumpButton(g, u, suit) ==
  /\ game_manager' =
       IF trump_msg(g, u) # "" THEN game_manager
       ELSE set_game(game_manager, g, choose_trump_on(GameOf(g), u, suit))
  /\ RegFrame

\* callback play_ once it holds game g: Game.play_card, and delete_game when
\* the game is finished and query.answer (line 1515) did not raise
play_msg(g, u, i) == IF ~Live(g) THEN "NotFound" ELSE play_card_msg(GameOf(g), u, i)

PlayButton(g, u, i) ==
  /\ IF play_msg(g, u, i) # "" THEN UNCHANGED game_manager
     ELSE LET played == set_game(game_manager, g, play_card_on(GameOf(g), u, i))
          IN  game_manager' \in
                IF played.games[g].state = "finished"
                THEN {played, delete_game(played, g)}
                ELSE {played}
  /\ RegFrame

\* ------------------------------------------------------ the inputs explored
RegIndexes == (0 - 1)..RegRanks

\* the next user to ask for a seat in game g is the lowest id not seated
\* there; users seated there may ask as well
RegNextJoiner(g) ==
  IF ~Live(g) THEN RegUsers
  ELSE {u \in RegUsers : GamePos(GameOf(g), u) # 0
                         \/ \A v \in RegUsers : v < u => GamePos(GameOf(g), v) # 0}

\* the users whose /leave is explored: of those it would remove, the one
\* seated last
RegLeavers ==
  {u \in RegUsers :
     leave_msg(u) = "" =>
       LET G == GameOf(get_player_game(u))
       IN  G.players[Len(G.players)].user_id = u}

\* game id g is created by user g; a game is started again only before its
\* first card is played; /verify is explored in the waiting phase
NextRegistry ==
  \/ \E g \in GameIds : NewGameCommand(g, g)
  \/ \E g \in GameIds : \E u \in RegNextJoiner(g) : JoinButton(g, u)
  \/ \E u \in RegLeavers : LeaveCommand(u)
  \/ \E u \in RegUsers, m \in BOOLEAN :
       /\ verify_msg(u) = "" => GameOf(get_player_game(u)).state = "waiting"
       /\ VerifyCommand(u, m)
  \/ \E g \in GameIds, u \in RegUsers :
       /\ Live(g) => GameOf(g).rounds = <<>> /\ GameOf(g).current_round.cards_played = <<>>
       /\ StartButtonOn(g, u)
  \/ \E u \in RegUsers : StartCommandOn(u)
  \/ \E u \in RegUsers : CloseCommand(u)
  \/ \E g \in GameIds, u \in RegUsers : CloseButton(g, u)
  \/ \E g \in GameIds, u \in RegUsers : TrumpButton(g, u, SuitList[1])
  \/ \E g \in GameIds, u \in RegUsers, i \in RegIndexes : PlayButton(g, u, i)

\* an empty manager; the variables of the single game stay as Init leaves them
SpecRegistry == Init /\ [][NextRegistry]_vars

\* a join, leave, start, trump choice, play, close or verification on game g
OperationOn(g) ==
  \/ \E u \in RegUsers : JoinButton(g, u)
  \/ \E u \in RegUsers : StartButtonOn(g, u)
  \/ \E u \in RegUsers : CloseButton(g, u)
  \/ \E u \in RegUsers, suit \in TrumpChoices : TrumpButton(g, u, suit)
  \/ \E u \in RegUsers, i \in RegIndexes : PlayButton(g, u, i)
  \/ \E u \in RegUsers :
       /\ get_player_game(u) = g
       /\ \/ LeaveCommand(u) \/ StartCommandOn(u) \/ CloseCommand(u)
          \/ \E m \in BOOLEAN : VerifyCommand(u, m)

\* every game but g is as it was: as live as before, with the same fields
OthersUnchanged(g) ==
  \A h \in GameIds \ {g} :
    /\ Live(h) <=> h \in DOMAIN game_manager'.games
    /\ Live(h) => game_manager'.games[h] = GameOf(h)

\* C30: games share no state.  An operation on one game leaves every other
\* game as it was: its roster, hands, tricks, turn, trump suit and phase,
\* also when the same user is seated in both.
C30_Isolation ==
  [][\A g \in GameIds : OthersUnchanged(g) \/ ~OperationOn(g)]_vars

\* C30 witness: two live games with the same four users seated in both, the
\* first in its trick with a card played, the second with its trump chosen
\* and a card played as well
C30_Witness ==
  /\ Live(1) /\ Live(2)
  /\ \A u \in RegUsers : GamePos(GameOf(1), u) # 0 /\ GamePos(GameOf(2), u) # 0
  /\ GameOf(1).state = "playing" /\ GameOf(2).state = "playing"
  /\ Len(GameOf(1).current_round.cards_played) = 1
  /\ Len(GameOf(2).current_round.cards_played) = 2

\* ------------------------------------------------- the end of a game (C31)
\* the games the registry holds in phase finished
FinishedHeld == {g \in GameIds : Live(g) /\ GameOf(g).state = "finished"}

\* a close by the creator, by command or by button, removes the game: this
\* part holds
CloseDeletes ==
  [][\A g \in GameIds, u \in RegUsers :
       /\ (close_button_msg(g, u) = "" /\ CloseButton(g, u)) => ~Live(g)'
       /\ (close_command_msg(u) = "" /\ get_player_game(u) = g /\ CloseCommand(u))
            => ~Live(g)']_vars

\* C31 as claimed: a game that reaches finished, or that its creator closes,
\* is gone from the registry: get_game finds no finished game, and a
\* successful close leaves no game under the id.
C31_Claim == [](FinishedHeld = {}) /\ CloseDeletes

\* ------------------------------------------ the trick's winner (C32)
\* the test of the play_ handler before it sends the trick winner's name,
\* on the game as play_card left it: the finished branch has returned before
\* it, and the message is sent when cards_played is true (not empty) and of
\* length 0
trick_winner_announced ==
  /\ state # "finished"
  /\ current_round.cards_played # <<>>
  /\ Len(current_round.cards_played) = 0

\* C32 as claimed: every play that completes a trick is followed, in its
\* handler, by the announcement of that trick's winner.
C32_Claim ==
  [][(Len(rounds') = Len(rounds) + 1) => trick_winner_announced']_vars

\* ------------------------------------------- who may start or close (C33)
\* user u is not the creator of the game a button on g reaches
NotCreatorOf(g, u) == Live(g) => u # GameOf(g).creator_id

\* C33: a start or close request by a user who is not the creator of the game
\* it reaches, by button (the game of the button's id) or by command (the
\* game user_games holds for the user), changes neither any game's phase nor
\* anything else in the registry.
C33_CreatorOnly ==
  [][\A g \in GameIds, u \in RegUsers :
       /\ (NotCreatorOf(g, u) /\ (StartButtonOn(g, u) \/ CloseButton(g, u)))
            => UNCHANGED game_manager
       /\ (NotCreatorOf(get_player_game(u), u) /\ (StartCommandOn(u) \/ CloseCommand(u)))
            => UNCHANGED game_manager]_vars

\* a full, verified waiting game that its creator could start or close, and a
\* seated user other than the creator whom all four requests refuse
C33_Witness ==
  \E g \in GameIds, u \in RegUsers :
    /\ Live(g)
    /\ GameOf(g).state = "waiting"
    /\ start_button_msg(g, GameOf(g).creator_id) = ""
    /\ close_button_msg(g, GameOf(g).creator_id) = ""
    /\ GamePos(GameOf(g), u) # 0
    /\ get_player_game(u) = g
    /\ start_button_msg(g, u) = "NotCreator"
    /\ start_command_msg(u) = "NotCreator"
    /\ close_button_msg(g, u) = "NotCreator"
    /\ close_command_msg(u) = "NotCreator"

\* ------------------------------------------------ card conservation (C34)
\* the cards of the current trick and of the completed tricks
RoundCards(round) == {round.cards_played[k].card : k \in 1..Len(round.cards_played)}
TrickCards == RoundCards(current_round)
DoneCards == UNION {RoundCards(rounds[r]) : r \in 1..Len(rounds)}
RECURSIVE DoneCount(_)
DoneCount(r) == IF r = 0 THEN 0 ELSE Len(rounds[r].cards_played) + DoneCount(r - 1)

\* the hands, the current trick and the completed tricks are pairwise
\* disjoint, hold no card twice and are together the cards of the deck
Conserved ==
  /\ HandCards \cup TrickCards \cup DoneCards = Range(deck)
  /\ HandCards \cap TrickCards = {}
  /\ HandCards \cap DoneCards = {}
  /\ TrickCards \cap DoneCards = {}
  /\ HandCount(Len(players)) + Len(current_round.cards_played) + DoneCount(Len(rounds))
       = Cardinality(Range(deck))

\* on a hand played from a fresh deal the cards are conserved: this holds
FreshConserved == state \in {"choosing_trump", "playing"} => Conserved

\* C34 as claimed: from the deal until the hand ends the four hands, the
\* current trick and the completed tricks are pairwise disjoint and are
\* together exactly the cards of the full deck.
C34_Claim ==
  [](state \in {"choosing_trump", "playing"} => Conserved /\ Range(deck) = AllCards)

\* ----------------------------------------------------- hand sizes (C35)
\* with k completed tricks a player who has played in the current trick
\* holds per_player - k - 1 cards and every other player per_player - k
HandSizes(per_player) ==
  state = "playing" =>
    \A k \in 1..Len(players) :
      Len(players[k].cards) =
        per_player - Len(rounds)
          - (IF HasKey(current_round.cards_played, players[k].user_id) THEN 1 ELSE 0)

\* on a hand dealt once the hand sizes are as claimed: this holds
FreshHandSizes == HandSizes(HandRanks)

\* C35 as claimed: in phase playing, with k completed tricks, the players
\* who have played in the current trick hold one card less than the full
\* hand less k, the others the full hand less k; so the hands are equal when
\* a trick starts.
C35_Claim == [](HandSizes(cards_per_player))

\* ------------------------------------------------- no stuck state (C36)
\* the turn order is a permutation of the ids of the four seated players
TurnOrderSeated ==
  /\ Len(players) = 4
  /\ Len(turn_order) = 4
  /\ Range(turn_order) = {players[k].user_id : k \in 1..Len(players)}
  /\ current_turn_index \in 0..(Len(turn_order) - 1)

\* the turn position, the turn order and the chooser are always those of
\* seated players: this part holds
TurnsSeated ==
  /\ state = "playing" => TurnOrderSeated /\ HasPlayer(OnTurn)
  /\ state = "choosing_trump" => HasPlayer(trump_chooser_id)

\* in phase playing the player on turn holds a card that play_card accepts
CanMove ==
  state = "playing" =>
    /\ Hand(OnTurn) # <<>>
    /\ \E i \in 0..(Len(Hand(OnTurn)) - 1) : play_card_ret(OnTurn, i).ok

\* on a hand dealt once the player on turn can always move: this holds
FreshCanMove == TurnsSeated /\ CanMove

\* C36 as claimed: in phase playing the turn position is a valid index into
\* a turn order that is a permutation of the four seated players, and the
\* player on turn is seated, holds a card and has a card play_card accepts;
\* in phase choosing_trump the chooser is seated.
C36_Claim == [](TurnsSeated /\ CanMove)

\* ------------------------------------------- registry consistency (C37)
\* the ids of the players seated in game g
Seated(g) == {GameOf(g).players[k].user_id : k \in 1..Len(GameOf(g).players)}

\* every player seated in a live game is led by get_player_game to a live
\* game in which they are seated
SeatedMapped ==
  \A g \in GameIds :
    Live(g) => \A p \in Seated(g) :
                 /\ get_player_game(p) # NoId
                 /\ p \in Seated(get_player_game(p))

\* the removal of game g leaves the user_games entries of the other live
\* games as they are
RemovalKeepsOthers ==
  [][\A g \in GameIds :
       (Live(g) /\ ~Live(g)')
         => \A u \in RegUsers :
              LET h == DictGet(game_manager.user_games, u)
              IN  (h # NoId /\ h # g /\ Live(h))
                    => DictGet(game_manager.user_games', u) = h]_vars

\* C37 as claimed: every player seated in a live game is mapped by
\* get_player_game to a live game in which they are seated, and removing a
\* game neither drops nor redirects the mapping to another live game.
C37_Claim == [](SeatedMapped) /\ RemovalKeepsOthers

\* -------------------------------------- one live game per user (C38)
\* the live games user u is seated in
GamesOf(u) == {g \in GameIds : Live(g) /\ u \in Seated(g)}

\* C38 as claimed: no user is seated in two live games at a time.
C38_Claim == [](\A u \in RegUsers : Cardinality(GamesOf(u)) <= 1)

\* ------------------------------------------- the creator's seat (C39)
\* C39: the creator of every live game is seated in it, and a create seats
\* the creator, verified, as the only player.
C39_CreatorSeated ==
  /\ [](\A g \in GameIds : Live(g) => GameOf(g).creator_id \in Seated(g))
  /\ [][\A g \in GameIds :
          NewGameCommand(g, g)
            => /\ Live(g)'
               /\ GameOf(g)'.creator_id = g
               /\ GameOf(g)'.players = <<[Player(g) EXCEPT !.verified = TRUE]>>]_vars

\* a waiting game with another player seated, whose creator's /leave reaches
\* it and is refused while the other player's /leave would go through
C39_Witness ==
  \E g \in GameIds, u \in RegUsers :
    /\ Live(g)
    /\ get_player_game(GameOf(g).creator_id) = g
    /\ leave_msg(GameOf(g).creator_id) = "Creator"
    /\ u # GameOf(g).creator_id
    /\ get_player_game(u) = g
    /\ leave_msg(u) = ""

\* ------------------------------------------------ callback data (C40)
\* A string is the sequence of its characters.
MaxChat == 2
MaxTime == 11

\* the chats and the seconds of the game ids explored: private chats have
\* positive ids, group chats negative ones
ChatIdSet == {c \in (0 - MaxChat)..MaxChat : c # 0}
Timestamps == 0..MaxTime

DigitChars == <<"0", "1", "2", "3", "4", "5", "6", "7", "8", "9">>

\* str(n) of a natural number
RECURSIVE StrNat(_)
StrNat(n) ==
  IF n < 10 THEN <<DigitChars[n + 1]>>
  ELSE StrNat(n \div 10) \o <<DigitChars[(n % 10) + 1]>>

\* f"{n}" of an integer
Str(n) == IF n < 0 THEN <<"-">> \o StrNat(0 - n) ELSE StrNat(n)

IsDigits(s) == s # <<>> /\ \A k \in 1..Len(s) : \E d \in 1..10 : DigitChars[d] = s[k]
DigitVal(c) == (CHOOSE d \in 1..10 : DigitChars[d] = c) - 1

RECURSIVE NatOf(_)
NatOf(s) ==
  IF s = <<>> THEN 0
  ELSE 10 * NatOf(SubSeq(s, 1, Len(s) - 1)) + DigitVal(s[Len(s)])

\* int(s): not ok stands for ValueError
IntOf(s) ==
  IF IsDigits(s) THEN [ok |-> TRUE, value |-> NatOf(s)]
  ELSE IF Len(s) >= 2 /\ s[1] = "-" /\ IsDigits(Tail(s))
  THEN [ok |-> TRUE, value |-> 0 - NatOf(Tail(s))]
  ELSE [ok |-> FALSE, value |-> 0]

\* s.split("_")
RECURSIVE Split(_)
Split(s) ==
  IF \A k \in 1..Len(s) : s[k] # "_" THEN <<s>>
  ELSE LET k == CHOOSE k \in 1..Len(s) : s[k] = "_" /\ \A j \in 1..(k - 1) : s[j] # "_"
       IN  <<SubSeq(s, 1, k - 1)>> \o Split(SubSeq(s, k + 1, Len(s)))

\* game_id = f"hokm_{chat_id}_{timestamp}"
game_id(chat_id, timestamp) ==
  <<"h", "o", "k", "m", "_">> \o Str(chat_id) \o <<"_">> \o Str(timestamp)

\* the suit names of the trump buttons and suit_map of the trump_ handler
SuitNames ==
  <<<<"h", "e", "a", "r", "t", "s">>, <<"d", "i", "a", "m", "o", "n", "d", "s">>,
    <<"c", "l", "u", "b", "s">>, <<"s", "p", "a", "d", "e", "s">>>>
suit_map(suit_name) ==
  IF \E k \in 1..4 : SuitNames[k] = suit_name
  THEN SuitList[CHOOSE k \in 1..4 : SuitNames[k] = suit_name]
  ELSE NoSuit

\* the callback data of the buttons the bot builds for game id gid
join_data(gid) == <<"j", "o", "i", "n", "_">> \o gid
start_data(gid) == <<"s", "t", "a", "r", "t", "_">> \o gid
close_data(gid) == <<"c", "l", "o", "s", "e", "_">> \o gid
trump_data(gid, suit_name) == <<"t", "r", "u", "m", "p", "_">> \o gid \o <<"_">> \o suit_name
play_data(gid, card_index) == <<"p", "l", "a", "y", "_">> \o gid \o <<"_">> \o Str(card_index)
check_data(gid, user_id) == <<"c", "h", "e", "c", "k", "_">> \o gid \o <<"_">> \o Str(user_id)

\* what callback_handler reads out of the data: data[5:] and data[6:] for
\* join_, start_ and close_ ...
join_decode(data) == SubSeq(data, 6, Len(data))
start_decode(data) == SubSeq(data, 7, Len(data))
close_decode(data) == SubSeq(data, 7, Len(data))

\* ... and parts[1], parts[2] of data.split("_") for trump_, play_ and
\* check_; found is len(parts) >= 3, and not ok is the ValueError of int()
trump_decode(data) ==
  LET parts == Split(data)
  IN  IF Len(parts) >= 3
      THEN [found |-> TRUE, game_id |-> parts[2], suit_name |-> parts[3]]
      ELSE [found |-> FALSE, game_id |-> <<>>, suit_name |-> <<>>]

play_decode(data) ==
  LET parts == Split(data)
  IN  IF Len(parts) >= 3
      THEN [found |-> TRUE, game_id |-> parts[2], ok |-> IntOf(parts[3]).ok,
            card_index |-> IntOf(parts[3]).value]
      ELSE [found |-> FALSE, game_id |-> <<>>, ok |-> TRUE, card_index |-> 0]

check_decode(data) ==
  LET parts == Split(data)
  IN  IF Len(parts) >= 3
      THEN [found |-> TRUE, game_id |-> parts[2], ok |-> IntOf(parts[3]).ok,
            user_id |-> IntOf(parts[3]).value]
      ELSE [found |-> FALSE, game_id |-> <<>>, ok |-> TRUE, user_id |-> 0]

\* the chat and the second of the game stored under id g: one group chat,
\* successive seconds
ChatOf(g) == 0 - MaxChat
TimeOf(g) == MaxTime - NumGames + g
IdOf(g) == game_id(ChatOf(g), TimeOf(g))

\* get_game(game_id) for the string a handler has read: NoId for None
get_game(gid) ==
  LET held == {g \in DOMAIN game_manager.games : IdOf(g) = gid}
  IN  IF held = {} THEN NoId ELSE CHOOSE g \in held : TRUE

\* callback check_ once it holds game g: the button is for user_id
check_msg(g, u, user_id) ==
  IF ~Live(g) THEN "NotFound"
  ELSE IF u # user_id THEN "NotForYou"
  ELSE IF GamePos(GameOf(g), user_id) = 0 THEN "NotIn"
  ELSE ""

CheckButton(g, u, user_id, is_member) ==
  /\ game_manager' =
       IF check_msg(g, u, user_id) # "" THEN game_manager
       ELSE set_game(game_manager, g,
                     [GameOf(g) EXCEPT !.players[GamePos(GameOf(g), user_id)].verified = is_member])
  /\ RegFrame

\* callback_handler on the data of a button built for game g, pressed by u
JoinCallback(g, u) == JoinButton(get_game(join_decode(join_data(IdOf(g)))), u)
StartCallback(g, u) == StartButtonOn(get_game(start_decode(start_data(IdOf(g)))), u)
CloseCallback(g, u) == CloseButton(get_game(close_decode(close_data(IdOf(g)))), u)

TrumpCallback(g, u, k) ==
  LET d == trump_decode(trump_data(IdOf(g), SuitNames[k]))
  IN  IF d.found /\ (get_game(d.game_id) = NoId \/ suit_map(d.suit_name) # NoSuit
                     \/ trump_msg(get_game(d.game_id), u) # "")
      THEN TrumpButton(get_game(d.game_id), u, suit_map(d.suit_name))
      ELSE UNCHANGED game_manager /\ RegFrame

PlayCallback(g, u, i) ==
  LET d == play_decode(play_data(IdOf(g), i))
  IN  IF d.found /\ d.ok
      THEN PlayButton(get_game(d.game_id), u, d.card_index)
      ELSE UNCHANGED game_manager /\ RegFrame

CheckCallback(g, u, v, is_member) ==
  LET d == check_decode(check_data(IdOf(g), v))
  IN  IF d.found /\ d.ok
      THEN CheckButton(get_game(d.game_id), u, d.user_id, is_member)
      ELSE UNCHANGED game_manager /\ RegFrame

\* the commands as in NextRegistry, the buttons through their callback data
NextButtons ==
  \/ \E g \in GameIds : NewGameCommand(g, g)
  \/ \E g \in GameIds : \E u \in RegNextJoiner(g) : JoinCallback(g, u)
  \/ \E u \in RegLeavers : LeaveCommand(u)
  \/ \E u \in RegUsers, m \in BOOLEAN :
       /\ verify_msg(u) = "" => GameOf(get_player_game(u)).state = "waiting"
       /\ VerifyCommand(u, m)
  \/ \E g \in GameIds, u \in RegUsers :
       /\ Live(g) => GameOf(g).rounds = <<>> /\ GameOf(g).current_round.cards_played = <<>>
       /\ StartCallback(g, u)
  \/ \E u \in RegUsers : StartCommandOn(u)
  \/ \E u \in RegUsers : CloseCommand(u)
  \/ \E g \in GameIds, u \in RegUsers : CloseCallback(g, u)
  \/ \E g \in GameIds, u \in RegUsers, k \in 1..Len(SuitNames) : TrumpCallback(g, u, k)
  \/ \E g \in GameIds, u \in RegUsers, i \in 0..(RegRanks - 1) : PlayCallback(g, u, i)
  \/ \E g \in GameIds, u \in RegUsers, m \in BOOLEAN : CheckCallback(g, u, u, m)

SpecButtons == Init /\ [][NextButtons]_vars

\* the data of the trump, play and check buttons of game id gid is read back
\* as gid and the suit name, card index or user id it was built from
RoundTrip(gid) ==
  /\ \A k \in 1..Len(SuitNames) :
       trump_decode(trump_data(gid, SuitNames[k]))
         = [found |-> TRUE, game_id |-> gid, suit_name |-> SuitNames[k]]
  /\ \A i \in 0..(RegRanks - 1) :
       play_decode(play_data(gid, i))
         = [found |-> TRUE, game_id |-> gid, ok |-> TRUE, card_index |-> i]
  /\ \A u \in RegUsers :
       check_decode(check_data(gid, u))
         = [found |-> TRUE, game_id |-> gid, ok |-> TRUE, user_id |-> u]

\* the data of the join, start and close buttons is read back as the id:
\* this holds
SliceRoundTrip ==
  \A c \in ChatIdSet, t \in Timestamps :
    /\ join_decode(join_data(game_id(c, t))) = game_id(c, t)
    /\ start_decode(start_data(game_id(c, t))) = game_id(c, t)
    /\ close_decode(close_data(game_id(c, t))) = game_id(c, t)

\* no id of the form hokm_<chat_id>_<timestamp> is read back from any trump,
\* play or check button, and no button of these leads to a game: this holds
NoRoundTrip ==
  \A c \in ChatIdSet, t \in Timestamps :
    /\ \A k \in 1..Len(SuitNames) :
         trump_decode(trump_data(game_id(c, t), SuitNames[k])).game_id # game_id(c, t)
    /\ \A i \in 0..(RegRanks - 1) :
         play_decode(play_data(game_id(c, t), i)).game_id # game_id(c, t)
    /\ \A u \in RegUsers :
         check_decode(check_data(game_id(c, t), u)).game_id # game_id(c, t)

\* through the buttons no game gets past the choice of the trump: this holds
NeverPlaying ==
  \A g \in GameIds : Live(g) => GameOf(g).state \in {"waiting", "choosing_trump"}

\* C40 as claimed: the callback data of the trump, play and check buttons of
\* every live game is decoded to the game's id and to the suit, card index
\* or user id the button was built from.
C40_Claim == [](\A g \in GameIds : Live(g) => RoundTrip(IdOf(g)))

====
